---- MODULE Spec2Model ----
(***************************************************************************)
(* A model of the pathman path tracer (src/main.js and its WGSL shader,    *)
(* src/unnamed/part_004): the scene tables, the BVH builder, the BVH       *)
(* traversal of intersectScene, the frame loop with its sample             *)
(* accumulation, and the compute dispatch.                                 *)
(*                                                                         *)
(* Numbers.  Coordinates, radii and costs are integers: every sum and      *)
(* product the builder computes on them is exact in the doubles of the     *)
(* source.  Number.MAX_VALUE is a finite stand-in larger than every value  *)
(* the model computes; Number.MIN_VALUE (5e-324, the smallest POSITIVE     *)
(* double) is 0: it is absorbed by every sum with a non-zero integer and   *)
(* becomes 0 in the Float32Array that is uploaded.                         *)
(*                                                                         *)
(* Specifications.  Spec builds the BVH of every scene of up to MaxObjs    *)
(* spheres and traverses it; SpecLine does so for one deep scene;          *)
(* SpecDispatch runs the invocations of one compute pass; SpecFrame runs   *)
(* the frame loop with the key and mouse handlers.  SpecUnknown is Spec on *)
(* tables with a shape kind the builder does not know; SpecSpread is       *)
(* SpecLine on scenes whose tree is balanced; SpecBuild is Spec with the   *)
(* calls of the builder running to their end.  SpecBounce runs the bounce  *)
(* loop of the shader's render; SpecShade applies intersectSphere,         *)
(* completeHitSphere and evalMaterial to one sphere; SpecScan runs the     *)
(* linear scan of the shader without BVH (src/unnamed/part_001).           *)
(***************************************************************************)
EXTENDS Integers, Sequences, FiniteSets, TLC

VARIABLES
  pc,                     \* where the program is: "scene", "build", "built", "trav", "done";
                          \* "dispatch" in a compute pass, "frames" in the frame loop,
                          \* "bounce" / "rendered" in the bounce loop ("absorbed" when
                          \* the loop was left for a failed scatter), "shade", "missed",
                          \* "hit", "complete", "shaded" when one sphere is shaded
  objects,                \* main.js objects: the object table, one record per object
  shapes,                 \* main.js shapes: one <<cx, cy, cz, radius>> line per shape
  sceneObjects,           \* the object table as createScene left it (history)
  bvhNodes,               \* main.js bvhNodes: the node array
  splitAxis, splitPos,    \* main.js: undeclared, hence global, variables of subdivideBvhNode
  callStack,              \* pending recursive calls of subdivideBvhNode, innermost first
  ray, tmin, tmax,        \* intersectScene: its arguments
  dist, objId,            \* intersectScene: closest distance so far and its object
  pendingBvhNodeIndices,  \* the shader's private array<u32, 30>
  pendingPos, pendingCount,
  found,                  \* intersectScene: its return value, "none" until it returns
  objOfs,                 \* the linear scan of the shader without BVH: its offset into
                          \* the flat object array
  width, height,          \* globals.width, globals.height of a dispatch
  invocation,             \* the number of invocations of the dispatch that have run
  touched,                \* the invocations <<x, y>> that read or wrote buffer / image
  writers,                \* per slot of buffer / image: the invocations that wrote it
  outOfBounds,            \* what the device does with a store past the end of a buffer
  gatheredSamples,        \* main.js: the samples behind the accumulation buffer, a rational
  orbitCam,               \* main.js: the orbit camera is on
  view,                   \* main.js: eye, theta / phi, vertFov, focDist, focAngle
  weight,                 \* globals.weight as copyFrameData uploaded it last
  buffer,                 \* one pixel of the accumulation buffer: the share of its
                          \* initial content (first) and of every frame estimate since
  framesAtReset,          \* the frames rendered when resetAccumulationBuffer last ran
  materials,              \* main.js materials: one <<r, g, b, w>> line per material
  hit,                    \* the shader's Hit h, "none" until intersectScene fills it
  att, outDir, scatter,   \* evalMaterial: its two outputs and its return value
  maxRecursion,           \* globals.maxRecursion
  depth,                  \* render: its bounce counter
  col,                    \* render: the colour of the path so far, "none" outside render
  iterations              \* render: the runs of its loop body so far (history)

buildVars == <<objects, shapes, sceneObjects, bvhNodes, splitAxis, splitPos, callStack>>
travVars == <<ray, tmin, tmax, dist, objId, pendingBvhNodeIndices, pendingPos, pendingCount, found,
              objOfs>>
dispatchVars == <<width, height, invocation, touched, writers, outOfBounds>>
frameVars == <<gatheredSamples, orbitCam, view, weight, buffer, framesAtReset>>
shadeVars == <<materials, hit, att, outDir, scatter, maxRecursion, depth, col, iterations>>
vars == <<pc, buildVars, travVars, dispatchVars, frameVars, shadeVars>>

----------------------------------------------------------------------------
(* Program constants *)

SHAPE_TYPE_SPHERE == 0
SHAPE_TYPE_PLANE == 1
SHAPE_TYPE_BOX == 2
MAT_TYPE_LAMBERT == 0
MAT_TYPE_METAL == 1
MAT_TYPE_GLASS == 2

(* Number.MAX_VALUE: here a number above every coordinate, area and cost of *)
(* the scenes.  Number.MIN_VALUE is the smallest positive double, 5e-324:   *)
(* added to or compared with the integer coordinates here, and stored as    *)
(* f32, it acts as 0.                                                       *)
MAX_VALUE == 1000000
MIN_VALUE == 0

(* EPSILON = 0.001 lies below every positive hit distance of the integer    *)
(* scenes and rays here and acts as 0; MAX_DIST, the largest f32, is a      *)
(* number above every distance.                                             *)
EPSILON == 0
MAX_DIST == 1000
PENDING_SIZE == 30

WORKGROUP_SIZE == 8
SAMPLES_PER_PIXEL == 5

(* Bounds of the model *)
MaxObjs == 3
MaxPending == 32
LineCount == 31
MaxImage == 9
MaxFrames == 4
MaxAdjust == 2
MaxRecursion == 12
MaxD == 4
MaxSpread == 8

(* splitAxis and splitPos before their first assignment: no axis, and no    *)
(* center coordinate of the scenes.                                         *)
Undefined == -1

(* The spheres a scene is drawn from: <<cx, cy, cz, radius>>.  A negative   *)
(* radius is the hollow-glass sphere of createScene's TEST scene.           *)
SphereKinds ==
  { <<0, 0, 0, 2>>, <<0, 0, 0, -1>>, <<3, 0, 0, 1>>,
    <<0, 3, 0, 1>>, <<-3, -3, -3, 1>>, <<0, -4, 3, -1>> }

----------------------------------------------------------------------------
(* Vector helpers *)

Min2(a, b) == IF a < b THEN a ELSE b
Max2(a, b) == IF a > b THEN a ELSE b
Abs(a) == IF a < 0 THEN -a ELSE a

vec3Add(a, b) == <<a[1] + b[1], a[2] + b[2], a[3] + b[3]>>
vec3Negate(v) == <<-v[1], -v[2], -v[3]>>
vec3Min(a, b) == <<Min2(a[1], b[1]), Min2(a[2], b[2]), Min2(a[3], b[3])>>
vec3Max(a, b) == <<Max2(a[1], b[1]), Max2(a[2], b[2]), Max2(a[3], b[3])>>
Dot(a, b) == a[1] * b[1] + a[2] * b[2] + a[3] * b[3]

(* vec3FromArr(shapes, shapeOfs) and shapes[shapeOfs + 3] *)
ShapeCenter(shapeIndex) == <<shapes[shapeIndex + 1][1], shapes[shapeIndex + 1][2], shapes[shapeIndex + 1][3]>>
ShapeRadius(shapeIndex) == shapes[shapeIndex + 1][4]

(* objects[(index) * OBJECT_SIZE ...]: the object at a 0-based index *)
ObjAt(objs, index) == objs[index + 1]

NumObjects == Len(objects)
NumNodes == Len(bvhNodes)
NodeAt(nodes, nodeIndex) == nodes[nodeIndex + 1]

----------------------------------------------------------------------------
(* Rational numbers [n, d] in lowest terms, d > 0: gatheredSamples, the     *)
(* weight and the shares in the accumulation buffer are kept exact.         *)

RECURSIVE GCD(_, _)
GCD(a, b) == IF b = 0 THEN a ELSE GCD(b, a % b)

RatOver(n, d, g) == [n |-> n \div g, d |-> d \div g]
Rat(n, d) == RatOver(n, d, GCD(Abs(n), d))
RatInt(k) == [n |-> k, d |-> 1]
RatMul(a, b) == Rat(a.n * b.n, a.d * b.d)
RatDiv(a, b) == Rat(a.n * b.d, a.d * b.n)
RatAddOver(a, b, g) == Rat(a.n * (b.d \div g) + b.n * (a.d \div g), (a.d \div g) * b.d)
RatAdd(a, b) == RatAddOver(a, b, GCD(a.d, b.d))
RatSub(a, b) == RatAdd(a, [n |-> -b.n, d |-> b.d])
RatLess(a, b) == a.n * b.d < b.n * a.d

TEMPORAL_WEIGHT == Rat(1, 10)
----------------------------------------------------------------------------
(* Scene builder *)

addObject(shapeType, shapeOfs, matType, matOfs) ==
  [shapeType |-> shapeType, shapeOfs |-> shapeOfs, matType |-> matType, matOfs |-> matOfs]

(* createScene: every object is a sphere with a shape line of its own *)
SceneTables(n, lines) ==
  [objs |-> [i \in 1..n |-> addObject(SHAPE_TYPE_SPHERE, i - 1, MAT_TYPE_LAMBERT, i - 1)],
   shapes |-> lines]

----------------------------------------------------------------------------
(* BVH builder *)

calcAabbArea(minExtent, maxExtent) ==
  LET d == vec3Add(maxExtent, vec3Negate(minExtent))
  IN d[1] * d[2] + d[2] * d[3] + d[3] * d[1]

SetMin(S) == CHOOSE x \in S : \A y \in S : x <= y
SetMax(S) == CHOOSE x \in S : \A y \in S : x >= y

(* The box that the vec3Min / vec3Max lines of addBvhNode and of            *)
(* calcSurfaceAreaHeuristic accumulate over the objects of indices, from    *)
(* the start values MAX_VALUE and MIN_VALUE; an unknown shape is alerted    *)
(* and adds nothing.                                                        *)
AabbOf(objs, indices) ==
  LET spheres == {i \in indices : ObjAt(objs, i).shapeType = SHAPE_TYPE_SPHERE}
      Low(i, a) == ShapeCenter(ObjAt(objs, i).shapeOfs)[a] + (-ShapeRadius(ObjAt(objs, i).shapeOfs))
      High(i, a) == ShapeCenter(ObjAt(objs, i).shapeOfs)[a] + ShapeRadius(ObjAt(objs, i).shapeOfs)
  IN [min |-> [a \in 1..3 |-> SetMin({MAX_VALUE} \cup {Low(i, a) : i \in spheres})],
      max |-> [a \in 1..3 |-> SetMax({MIN_VALUE} \cup {High(i, a) : i \in spheres})]]

(* The node that addBvhNode pushes *)
NodeOf(box, objStartIndex, objCount) ==
  [aabbMin |-> box.min, startIndex |-> objStartIndex, aabbMax |-> box.max, objCount |-> objCount]

(* addBvhNode pushes the node; its nodeIndex parameter is not used *)
addBvhNode(nodes, objs, nodeIndex, objStartIndex, objCount) ==
  Append(nodes, NodeOf(AabbOf(objs, objStartIndex..(objStartIndex + objCount - 1)),
                       objStartIndex, objCount))

(* The objects of the range that calcSurfaceAreaHeuristic counts left:      *)
(* center[axis] < pos                                                       *)
SahLeft(objs, objStartIndex, objCount, axis, pos) ==
  {i \in objStartIndex..(objStartIndex + objCount - 1) :
     /\ ObjAt(objs, i).shapeType = SHAPE_TYPE_SPHERE
     /\ ShapeCenter(ObjAt(objs, i).shapeOfs)[axis + 1] < pos}

(* and those it counts right *)
SahRight(objs, objStartIndex, objCount, axis, pos) ==
  {i \in objStartIndex..(objStartIndex + objCount - 1) :
     /\ ObjAt(objs, i).shapeType = SHAPE_TYPE_SPHERE
     /\ ~(ShapeCenter(ObjAt(objs, i).shapeOfs)[axis + 1] < pos)}

(* The return statement of calcSurfaceAreaHeuristic *)
SahCost(leftCount, leftAabb, rightCount, rightAabb) ==
  IF leftCount > 0 /\ rightCount > 0
  THEN leftCount * calcAabbArea(leftAabb.min, leftAabb.max)
       + rightCount * calcAabbArea(rightAabb.min, rightAabb.max)
  ELSE MAX_VALUE

SahOfSides(objs, left, right) ==
  SahCost(Cardinality(left), AabbOf(objs, left), Cardinality(right), AabbOf(objs, right))

calcSurfaceAreaHeuristic(objs, objStartIndex, objCount, axis, pos) ==
  SahOfSides(objs, SahLeft(objs, objStartIndex, objCount, axis, pos),
                   SahRight(objs, objStartIndex, objCount, axis, pos))

(* The candidates of the two nested loops of subdivideBvhNode over axis and *)
(* object, in loop order: candidate k = axis * objCount + i takes the       *)
(* center of object i on the axis; an unknown shape is alerted and passed   *)
(* over.                                                                    *)
SplitCandidate(objs, objStartIndex, objCount, axis, obj) ==
  IF obj.shapeType # SHAPE_TYPE_SPHERE
  THEN [bestCost |-> MAX_VALUE, splitPos |-> 0, splitAxis |-> axis]
  ELSE [bestCost |-> calcSurfaceAreaHeuristic(objs, objStartIndex, objCount, axis,
                                               ShapeCenter(obj.shapeOfs)[axis + 1]),
        splitPos |-> ShapeCenter(obj.shapeOfs)[axis + 1],
        splitAxis |-> axis]

SplitCandidates(objs, objStartIndex, objCount) ==
  [k \in 0..(3 * objCount - 1) |->
     SplitCandidate(objs, objStartIndex, objCount, k \div objCount,
                    ObjAt(objs, objStartIndex + (k % objCount)))]

(* A search that keeps the last candidate below bestCost it meets *)
KeepLast(cands, best) ==
  LET better == {k \in DOMAIN cands : cands[k].bestCost < best.bestCost}
  IN IF better = {} THEN best
     ELSE cands[CHOOSE k \in better : \A j \in better : j <= k]

(* if(cost < bestCost) { bestCost = cost; splitPos = pos; splitAxis = axis } *)
(* over the candidates in order keeps the first candidate of least cost, if *)
(* that is below the bestCost the loops start with.                         *)
KeepBest(cands, best) ==
  LET better == {k \in DOMAIN cands : cands[k].bestCost < best.bestCost}
  IN IF better = {} THEN best
     ELSE cands[CHOOSE k \in better :
                  \A j \in better :
                    \/ cands[k].bestCost < cands[j].bestCost
                    \/ cands[k].bestCost = cands[j].bestCost /\ k <= j]

(* A search that assigns splitPos and splitAxis only while they are unset: *)
(* later calls keep what an earlier call selected                           *)
SearchSplitOnce(objs, objStartIndex, objCount, best) ==
  IF best.splitAxis = Undefined
  THEN KeepBest(SplitCandidates(objs, objStartIndex, objCount), best)
  ELSE [bestCost |-> KeepBest(SplitCandidates(objs, objStartIndex, objCount), best).bestCost,
        splitPos |-> best.splitPos,
        splitAxis |-> best.splitAxis]

SearchSplit(objs, objStartIndex, objCount, best) ==
  KeepBest(SplitCandidates(objs, objStartIndex, objCount), best)

(* A test that stops the subdivision unless the split halves the cost *)
CostStopsEarly(node, bestCost) ==
  IF node.objCount = 0 \/ node.aabbMin[1] = MAX_VALUE THEN FALSE
  ELSE node.objCount * calcAabbArea(node.aabbMin, node.aabbMax) <= 2 * bestCost

(* if(parentCost <= bestCost) return;  For an empty node the area is        *)
(* (MIN_VALUE - MAX_VALUE)^2 * 3 = Infinity and 0 * Infinity is NaN, which  *)
(* compares false; a node of unknown shapes only keeps the start box, its   *)
(* cost is Infinity, and Infinity <= bestCost is false.                     *)
CostStops(node, bestCost) ==
  IF node.objCount = 0 \/ node.aabbMin[1] = MAX_VALUE THEN FALSE
  ELSE node.objCount * calcAabbArea(node.aabbMin, node.aabbMax) <= bestCost

(* A swap that loses the left object: it copies r over l and leaves r; the  *)
(* table is then no permutation of the scene's                              *)
SwapObjectsOverwrite(objs, l, r) ==
  [objs EXCEPT ![l + 1] = objs[r + 1]]

(* Swap object data l/r *)
SwapObjects(objs, l, r) ==
  [objs EXCEPT ![l + 1] = objs[r + 1], ![r + 1] = objs[l + 1]]

(* center < splitPos in the partition loop; an unknown shape leaves center  *)
(* undefined, and undefined < splitPos is false.                            *)
CenterIsLeftOrOn(obj, axis, pos) ==
  /\ obj.shapeType = SHAPE_TYPE_SPHERE
  /\ ShapeCenter(obj.shapeOfs)[axis + 1] <= pos

CenterIsLeft(obj, axis, pos) ==
  /\ obj.shapeType = SHAPE_TYPE_SPHERE
  /\ ShapeCenter(obj.shapeOfs)[axis + 1] < pos

(* A partition loop that runs while(l < r) and leaves the last object       *)
(* unexamined                                                               *)
RECURSIVE PartitionLoopShort(_, _, _, _, _)
PartitionLoopShort(objs, l, r, axis, pos) ==
  IF l >= r THEN [objs |-> objs, l |-> l]
  ELSE IF CenterIsLeft(ObjAt(objs, l), axis, pos)
       THEN PartitionLoopShort(objs, l + 1, r, axis, pos)
       ELSE PartitionLoopShort(SwapObjects(objs, l, r), l, r - 1, axis, pos)

(* while(l <= r) ... : the two-pointer partition; yields the table and l *)
RECURSIVE PartitionLoop(_, _, _, _, _)
PartitionLoop(objs, l, r, axis, pos) ==
  IF l > r THEN [objs |-> objs, l |-> l]
  ELSE IF CenterIsLeft(ObjAt(objs, l), axis, pos)
       THEN PartitionLoop(objs, l + 1, r, axis, pos)
       ELSE PartitionLoop(SwapObjects(objs, l, r), l, r - 1, axis, pos)

(* A link that names the right child *)
LinkChildrenRight(nodes, nodeIndex, leftChildIndex) ==
  [nodes EXCEPT ![nodeIndex + 1].startIndex = leftChildIndex + 1,
                ![nodeIndex + 1].objCount = 0]

(* Current node is not a leaf node, link child nodes *)
LinkChildren(nodes, nodeIndex, leftChildIndex) ==
  [nodes EXCEPT ![nodeIndex + 1].startIndex = leftChildIndex,
                ![nodeIndex + 1].objCount = 0]

(* A call of subdivideBvhNode that returns early: the globals keep what the *)
(* search wrote, calls is empty.                                            *)
SubdivideReturns(nodes, objs, best) ==
  [nodes |-> nodes, objs |-> objs, splitAxis |-> best.splitAxis,
   splitPos |-> best.splitPos, calls |-> <<>>]

(* subdivideBvhNode after its partition loop, which left part.objs and      *)
(* part.l: the return when one side is empty, else the two addBvhNode and   *)
(* the link; the two recursive calls are returned in calls (left first).    *)
SubdivideAfterPartition(nodes, node, nodeIndex, best, part) ==
  IF part.l - node.startIndex = 0 \/ part.l - node.startIndex = node.objCount
  THEN SubdivideReturns(nodes, part.objs, best)
  ELSE [nodes |-> addBvhNode(
                    addBvhNode(LinkChildren(nodes, nodeIndex, Len(nodes)),
                               part.objs, Len(nodes), node.startIndex,
                               part.l - node.startIndex),
                    part.objs, Len(nodes) + 1, part.l,
                    node.objCount - (part.l - node.startIndex)),
        objs |-> part.objs,
        splitAxis |-> best.splitAxis,
        splitPos |-> best.splitPos,
        calls |-> <<Len(nodes), Len(nodes) + 1>>]

(* A call that calls itself on its own node *)
SubdivideAgain(nodes, objs, node, nodeIndex, best) ==
  [nodes |-> nodes, objs |-> objs, splitAxis |-> best.splitAxis,
   splitPos |-> best.splitPos, calls |-> <<nodeIndex>>]

(* subdivideBvhNode after its search loops, which left best *)
SubdivideAfterSearch(nodes, objs, node, nodeIndex, best) ==
  IF CostStops(node, best.bestCost)
  THEN SubdivideReturns(nodes, objs, best)
  ELSE SubdivideAfterPartition(nodes, node, nodeIndex, best,
         PartitionLoop(objs, node.startIndex, node.startIndex + node.objCount - 1,
                       best.splitAxis, best.splitPos))

(* One call of subdivideBvhNode up to its two recursive calls; axis0 and    *)
(* pos0 are the globals splitAxis and splitPos as the call finds them.      *)
SubdivideCall(nodes, objs, axis0, pos0, nodeIndex) ==
  SubdivideAfterSearch(nodes, objs, NodeAt(nodes, nodeIndex), nodeIndex,
    SearchSplit(objs, NodeAt(nodes, nodeIndex).startIndex, NodeAt(nodes, nodeIndex).objCount,
                [bestCost |-> MAX_VALUE, splitPos |-> pos0, splitAxis |-> axis0]))

----------------------------------------------------------------------------
(* Distances along a ray.  With integer origin, direction and scene a hit   *)
(* distance is (p + s * sqrt(d)) / a with a = dot(dir, dir), p and d >= 0   *)
(* integers and s = 1 or -1; the record [p, s, d] is that number for the    *)
(* ray at hand, and the comparisons below are exact.                        *)

Sgn(x) == IF x > 0 THEN 1 ELSE IF x < 0 THEN -1 ELSE 0

(* The sign of m + sigma * sqrt(q) *)
SgnRoot(m, sigma, q) ==
  IF sigma > 0
  THEN IF m >= 0 THEN (IF m = 0 /\ q = 0 THEN 0 ELSE 1) ELSE Sgn(q - m * m)
  ELSE IF m <= 0 THEN (IF m = 0 /\ q = 0 THEN 0 ELSE -1) ELSE Sgn(m * m - q)

(* The sign of t1 - t2 *)
DistCmp(t1, t2) ==
  LET x == t1.p - t2.p
      su == IF t1.s > 0
            THEN (IF t2.s > 0 THEN Sgn(t1.d - t2.d) ELSE Sgn(t1.d + t2.d))
            ELSE (IF t2.s > 0 THEN -Sgn(t1.d + t2.d) ELSE Sgn(t2.d - t1.d))
  IN IF su = 0 THEN Sgn(x)
     ELSE IF x = 0 \/ Sgn(x) = su THEN su
     ELSE Sgn(x) * SgnRoot(x * x - t1.d - t2.d, t1.s * t2.s, 4 * t1.d * t2.d)

DistLess(t1, t2) == DistCmp(t1, t2) < 0
DistLeq(t1, t2) == DistCmp(t1, t2) <= 0

(* The distance t, an integer, along ray r *)
DistOf(r, t) == [p |-> Dot(r.dir, r.dir) * t, s |-> 1, d |-> 0]

----------------------------------------------------------------------------
(* Intersection engine (src/unnamed/part_004) *)

maxComp(v) == Max2(v[1], Max2(v[2], v[3]))
minComp(v) == Min2(v[1], Min2(v[2], v[3]))

(* invDir = 1 / dir: exact for the directions of Rays, whose components are *)
(* 1 or -1.                                                                 *)
(* 1 / 0 is +Infinity: MAX_VALUE stands for it.                             *)
Inv(x) == IF x = 0 THEN MAX_VALUE ELSE 1 \div x

createRay(ori, dir) ==
  [ori |-> ori, dir |-> dir, invDir |-> <<Inv(dir[1]), Inv(dir[2]), Inv(dir[3])>>]

intersectAabb(r, minDist, maxDist, minExt, maxExt) ==
  LET t0 == [a \in 1..3 |-> (minExt[a] - r.ori[a]) * r.invDir[a]]
      t1 == [a \in 1..3 |-> (maxExt[a] - r.ori[a]) * r.invDir[a]]
      tmn == maxComp(vec3Min(t0, t1))
      tmx == minComp(vec3Max(t0, t1))
  IN /\ tmn <= tmx
     /\ DistLess(minDist, DistOf(r, tmx))
     /\ DistLess(DistOf(r, tmn), maxDist)

(* A sphere test that accepts a root on the bounds of the interval *)
intersectSphereClosed(r, tmn, tmx, center, radius) ==
  LET oc == vec3Add(r.ori, vec3Negate(center))
      a == Dot(r.dir, r.dir)
      b == Dot(oc, r.dir)
      c == Dot(oc, oc) - radius * radius
      d == b * b - a * c
      near == [p |-> -b, s |-> -1, d |-> d]
      far == [p |-> -b, s |-> 1, d |-> d]
      Outside(t) == DistLess(t, tmn) \/ DistLess(tmx, t)
  IN IF d < 0 THEN [hit |-> FALSE, dist |-> tmx]
     ELSE IF ~Outside(near) THEN [hit |-> TRUE, dist |-> near]
     ELSE IF ~Outside(far) THEN [hit |-> TRUE, dist |-> far]
     ELSE [hit |-> FALSE, dist |-> tmx]

intersectSphere(r, tmn, tmx, center, radius) ==
  LET oc == vec3Add(r.ori, vec3Negate(center))
      a == Dot(r.dir, r.dir)
      b == Dot(oc, r.dir)
      c == Dot(oc, oc) - radius * radius
      d == b * b - a * c
      near == [p |-> -b, s |-> -1, d |-> d]
      far == [p |-> -b, s |-> 1, d |-> d]
      Outside(t) == DistLeq(t, tmn) \/ DistLeq(tmx, t)
  IN IF d < 0 THEN [hit |-> FALSE, dist |-> tmx]
     ELSE IF ~Outside(near) THEN [hit |-> TRUE, dist |-> near]
     ELSE IF ~Outside(far) THEN [hit |-> TRUE, dist |-> far]
     ELSE [hit |-> FALSE, dist |-> tmx]

(* if(intersectSphere(...)) { objId = i; } with dist updated by the hit *)
TakeHit(acc, h, i) == IF h.hit THEN [dist |-> h.dist, objId |-> i] ELSE acc

(* The loop of intersectObjects from object i to the end of the range; acc  *)
(* is [dist, objId].  A plane is passed over; any other kind returns.       *)
RECURSIVE intersectObjectsFrom(_, _, _, _, _)
intersectObjectsFrom(r, i, end, tmn, acc) ==
  IF i >= end THEN acc
  ELSE IF ObjAt(objects, i).shapeType = SHAPE_TYPE_SPHERE
  THEN intersectObjectsFrom(r, i + 1, end, tmn,
         TakeHit(acc, intersectSphere(r, tmn, acc.dist,
                                      ShapeCenter(ObjAt(objects, i).shapeOfs),
                                      ShapeRadius(ObjAt(objects, i).shapeOfs)), i))
  ELSE IF ObjAt(objects, i).shapeType = SHAPE_TYPE_PLANE
  THEN intersectObjectsFrom(r, i + 1, end, tmn, acc)
  ELSE acc

intersectObjects(r, objStartIndex, objCount, tmn, d, id) ==
  intersectObjectsFrom(r, objStartIndex, objStartIndex + objCount, tmn, [dist |-> d, objId |-> id])

(* The tail of intersectScene after the loop: the value it returns *)
SceneResult(d, id, tmx) ==
  IF DistLess(d, tmx)
  THEN ObjAt(objects, id).shapeType \in {SHAPE_TYPE_SPHERE, SHAPE_TYPE_PLANE}
  ELSE FALSE

SceneAnswer(res, tmx) ==
  [found |-> SceneResult(res.dist, res.objId, tmx), dist |-> res.dist, objId |-> res.objId]

(* The variant of intersectScene that scans the whole table               *)
(* (part_004, lines 342-370)                                               *)
LinearScan(r, tmn, tmx) ==
  SceneAnswer(intersectObjects(r, 0, NumObjects, tmn, tmx, 0), tmx)

(* An access of pendingBvhNodeIndices at index i.  An index past the array  *)
(* is out of bounds: the write is dropped or lands on the last element, the *)
(* read yields 0 or the last element.                                       *)
PendingRead(i, clamp) ==
  IF i < PENDING_SIZE THEN pendingBvhNodeIndices[i]
  ELSE IF clamp THEN pendingBvhNodeIndices[PENDING_SIZE - 1] ELSE 0

PendingWrite(arr, i, v, clamp) ==
  IF i < PENDING_SIZE THEN [arr EXCEPT ![i] = v]
  ELSE IF clamp THEN [arr EXCEPT ![PENDING_SIZE - 1] = v] ELSE arr

(* A read of bvhNodes past its end yields the last node or a zero node *)
NodeRead(nodeIndex, clamp) ==
  IF nodeIndex < NumNodes THEN NodeAt(bvhNodes, nodeIndex)
  ELSE IF clamp THEN NodeAt(bvhNodes, NumNodes - 1)
  ELSE [aabbMin |-> <<0, 0, 0>>, startIndex |-> 0, aabbMax |-> <<0, 0, 0>>, objCount |-> 0]

Rays ==
  { createRay(<<-6, -6, -6>>, <<1, 1, 1>>),
    createRay(<<6, 6, 6>>, <<-1, -1, -1>>),
    createRay(<<-6, 5, -6>>, <<1, -1, 1>>),
    createRay(<<-5, 1, -2>>, <<1, -1, 1>>),
    createRay(<<0, 0, 0>>, <<1, 1, 1>>),
    createRay(<<-6, -6, -5>>, <<1, 1, 1>>) }

Intervals == { <<EPSILON, MAX_DIST>>, <<5, 7>> }

----------------------------------------------------------------------------
(* Actions *)

(* No intersectScene call is running; a private array is zero-initialised *)
TravIdle ==
  /\ ray = createRay(<<0, 0, 0>>, <<1, 1, 1>>)
  /\ tmin = DistOf(ray, 0)
  /\ tmax = DistOf(ray, 0)
  /\ dist = DistOf(ray, 0)
  /\ objId = 0
  /\ pendingBvhNodeIndices = [i \in 0..(PENDING_SIZE - 1) |-> 0]
  /\ pendingPos = 0
  /\ pendingCount = 0
  /\ found = "none"
  /\ objOfs = 0

(* No dispatch is running *)
DispatchIdle ==
  /\ width = 0
  /\ height = 0
  /\ invocation = 0
  /\ touched = {}
  /\ writers = <<>>
  /\ outOfBounds = "drop"

(* No frame loop is running *)
FrameIdle ==
  /\ gatheredSamples = RatInt(0)
  /\ orbitCam = FALSE
  /\ view = <<>>
  /\ weight = RatInt(0)
  /\ buffer = <<>>
  /\ framesAtReset = 0

(* No path is being traced *)
ShadeIdle ==
  /\ materials = <<>>
  /\ hit = "none"
  /\ att = "none"
  /\ outDir = "none"
  /\ scatter = "none"
  /\ maxRecursion = 0
  /\ depth = 0
  /\ col = "none"
  /\ iterations = 0

(* No scene was built *)
BuildIdle ==
  /\ objects = <<>>
  /\ shapes = <<>>
  /\ sceneObjects = <<>>
  /\ bvhNodes = <<>>
  /\ splitAxis = Undefined
  /\ splitPos = Undefined
  /\ callStack = <<>>

(* After createScene: any table of at most MaxObjs spheres *)
Init ==
  \E n \in 0..MaxObjs :
    \E lines \in [1..n -> SphereKinds] :
      /\ pc = "scene"
      /\ objects = SceneTables(n, lines).objs
      /\ shapes = lines
      /\ sceneObjects = objects
      /\ bvhNodes = <<>>
      /\ splitAxis = Undefined
      /\ splitPos = Undefined
      /\ callStack = <<>>
      /\ TravIdle
      /\ DispatchIdle
      /\ FrameIdle
  /\ ShadeIdle
      /\ ShadeIdle

(* createBvh: the root node, then the call subdivideBvhNode(0) *)
createBvh ==
  /\ pc = "scene"
  /\ bvhNodes' = addBvhNode(bvhNodes, objects, 0, 0, Len(objects))
  /\ callStack' = <<0>>
  /\ pc' = "build"
  /\ UNCHANGED <<objects, shapes, sceneObjects, splitAxis, splitPos, travVars, dispatchVars, frameVars, shadeVars>>

(* One call of subdivideBvhNode; the recursion is depth first, left child   *)
(* before right child.                                                      *)
subdivideBvhNode ==
  /\ pc = "build"
  /\ callStack # <<>>
  /\ \E r \in {SubdivideCall(bvhNodes, objects, splitAxis, splitPos, Head(callStack))} :
        /\ bvhNodes' = r.nodes
        /\ objects' = r.objs
        /\ splitAxis' = r.splitAxis
        /\ splitPos' = r.splitPos
        /\ callStack' = r.calls \o Tail(callStack)
        /\ pc' = IF r.calls \o Tail(callStack) = <<>> THEN "built" ELSE "build"
  /\ UNCHANGED <<shapes, sceneObjects, travVars, dispatchVars, frameVars, shadeVars>>

(* intersectScene up to its loop, for a ray and an interval of the sets *)
intersectSceneEnterOn(rays, intervals) ==
  /\ pc = "built"
  /\ \E r \in rays, iv \in intervals :
       /\ ray' = r
       /\ tmin' = DistOf(r, iv[1])
       /\ tmax' = DistOf(r, iv[2])
       /\ dist' = DistOf(r, iv[2])
  /\ objId' = 0
  /\ pendingPos' = 0
  /\ pendingCount' = 1
  /\ pendingBvhNodeIndices' = [pendingBvhNodeIndices EXCEPT ![0] = 0]
  /\ found' = "none"
  /\ pc' = "trav"
  /\ UNCHANGED <<objOfs, buildVars, dispatchVars, frameVars, shadeVars>>

intersectSceneEnter == intersectSceneEnterOn(Rays, Intervals)

(* One iteration of the loop of intersectScene; the iteration that breaks   *)
(* goes on to the end of the function.                                      *)
intersectSceneLoop ==
  /\ pc = "trav"
  /\ pendingCount <= MaxPending
  /\ \E clamp \in (IF pendingPos >= PENDING_SIZE \/ pendingCount >= PENDING_SIZE
                    THEN BOOLEAN ELSE {TRUE}) :
       \E node \in {NodeRead(PendingRead(pendingPos, clamp), clamp)} :
       \E boxHit \in {intersectAabb(ray, tmin, dist, node.aabbMin, node.aabbMax)} :
          IF boxHit /\ node.objCount = 0
          THEN /\ pendingBvhNodeIndices' =
                    PendingWrite(PendingWrite(pendingBvhNodeIndices, pendingPos, node.startIndex, clamp),
                                 pendingCount, node.startIndex + 1, clamp)
               /\ pendingCount' = pendingCount + 1
               /\ UNCHANGED <<dist, objId, pendingPos, found, pc>>
          ELSE \E res \in {IF boxHit
                           THEN intersectObjects(ray, node.startIndex, node.objCount, tmin, dist, objId)
                           ELSE [dist |-> dist, objId |-> objId]} :
                  /\ dist' = res.dist
                  /\ objId' = res.objId
                  /\ pendingPos' = pendingPos + 1
                  /\ IF pendingPos + 1 >= pendingCount
                     THEN found' = SceneResult(res.dist, res.objId, tmax) /\ pc' = "done"
                     ELSE UNCHANGED <<found, pc>>
                  /\ UNCHANGED <<pendingBvhNodeIndices, pendingCount>>
  /\ UNCHANGED <<buildVars, ray, tmin, tmax, objOfs, dispatchVars, frameVars, shadeVars>>

Next == createBvh \/ subdivideBvhNode \/ intersectSceneEnter \/ intersectSceneLoop

Spec == Init /\ [][Next]_vars

(* main calls createBvh once, and createBvh and every call of               *)
(* subdivideBvhNode run to their end: a call that can run does run.  A call *)
(* of subdivideBvhNode can run exactly when CallRuns holds, and every call  *)
(* takes itself off the call stack, so that                                 *)
(* WF_buildProgress(subdivideBvhNode) is the formula SubdivideFair.         *)
buildProgress == <<pc, callStack, bvhNodes, objects>>

CallRuns == pc = "build" /\ callStack # <<>>

SubdivideFair == []<>(~CallRuns) \/ []<><<subdivideBvhNode>>_buildProgress

SpecBuild ==
  Init /\ [][Next]_vars /\ WF_buildProgress(createBvh) /\ SubdivideFair

----------------------------------------------------------------------------
(* A deep tree: LineCount unit spheres on the diagonal, two apart on every  *)
(* axis, and rays along the diagonal: one through the centers and one that  *)
(* passes through every box and misses every sphere.                        *)

LineScene ==
  SceneTables(LineCount, [i \in 1..LineCount |-> <<2 * (i - 1), 2 * (i - 1), 2 * (i - 1), 1>>])

LineRays ==
  { createRay(<<-2, -2, -2>>, <<1, 1, 1>>),
    createRay(<<-1, -3, -2>>, <<1, 1, 1>>) }

InitLine ==
  /\ pc = "scene"
  /\ objects = LineScene.objs
  /\ shapes = LineScene.shapes
  /\ sceneObjects = objects
  /\ bvhNodes = <<>>
  /\ splitAxis = Undefined
  /\ splitPos = Undefined
  /\ callStack = <<>>
  /\ TravIdle
  /\ DispatchIdle
  /\ FrameIdle
  /\ ShadeIdle

intersectSceneEnterLine == intersectSceneEnterOn(LineRays, {<<EPSILON, MAX_DIST>>})

NextLine == createBvh \/ subdivideBvhNode \/ intersectSceneEnterLine \/ intersectSceneLoop

SpecLine == InitLine /\ [][NextLine]_vars

----------------------------------------------------------------------------
(* A balanced tree: unit spheres on the diagonal in pairs, pairs of pairs   *)
(* and so on, with the rays of the deep tree.                               *)

SpreadCenter(k) ==
  2 * (k % 2) + 8 * ((k \div 2) % 2) + 32 * ((k \div 4) % 2) + 128 * ((k \div 8) % 2)

SpreadScene(n) ==
  SceneTables(n, [i \in 1..n |-> <<SpreadCenter(i - 1), SpreadCenter(i - 1), SpreadCenter(i - 1), 1>>])

InitSpread ==
  /\ pc = "scene"
  /\ \E n \in 1..MaxSpread :
       /\ objects = SpreadScene(n).objs
       /\ shapes = SpreadScene(n).shapes
  /\ sceneObjects = objects
  /\ bvhNodes = <<>>
  /\ splitAxis = Undefined
  /\ splitPos = Undefined
  /\ callStack = <<>>
  /\ TravIdle
  /\ DispatchIdle
  /\ FrameIdle
  /\ ShadeIdle

SpecSpread == InitSpread /\ [][NextLine]_vars

----------------------------------------------------------------------------
(* Scenes with a shape kind that no switch of the builder knows: addObject  *)
(* takes any shapeType.                                                     *)

UnknownLines == { <<0, 0, 0, 2>>, <<3, 0, 0, 1>>, <<-3, -3, -3, 1>> }

SceneTablesOfKinds(n, lines, kinds) ==
  [objs |-> [i \in 1..n |-> addObject(kinds[i], i - 1, MAT_TYPE_LAMBERT, i - 1)],
   shapes |-> lines]

HasUnknownShape(objs) ==
  \E i \in 1..Len(objs) : objs[i].shapeType \notin {SHAPE_TYPE_SPHERE, SHAPE_TYPE_PLANE}

InitUnknown ==
  /\ pc = "scene"
  /\ \E n \in 1..MaxObjs :
       \E lines \in [1..n -> UnknownLines], kinds \in [1..n -> {SHAPE_TYPE_SPHERE, SHAPE_TYPE_BOX}] :
         /\ objects = SceneTablesOfKinds(n, lines, kinds).objs
         /\ shapes = lines
  /\ HasUnknownShape(objects)
  /\ sceneObjects = objects
  /\ bvhNodes = <<>>
  /\ splitAxis = Undefined
  /\ splitPos = Undefined
  /\ callStack = <<>>
  /\ TravIdle
  /\ DispatchIdle
  /\ FrameIdle
  /\ ShadeIdle

SpecUnknown == InitUnknown /\ [][Next]_vars

----------------------------------------------------------------------------
(* The shader without BVH (part_001): objects is a flat array<f32>, a       *)
(* sphere takes six numbers: kind, center, radius, material offset.         *)
(* intersectScene scans it from offset 0.  Every object of the tables takes *)
(* six numbers.                                                             *)

OBJ_TYPE_SPHERE == 0
OBJ_TYPE_PLANE == 1
OBJ_TYPE_BOX == 2
SPHERE_SIZE == 6
ERROR_JUMP == 99999

ScanLines == { <<0, 0, 0, 2>>, <<3, 0, 0, 1>> }
ScanKinds == { OBJ_TYPE_SPHERE, OBJ_TYPE_PLANE, OBJ_TYPE_BOX }

FlatObject(kind, line) == <<kind, line[1], line[2], line[3], line[4], 0>>

FlatTable(n, kinds, lines) ==
  [i \in 1..(SPHERE_SIZE * n) |->
     FlatObject(kinds[(i - 1) \div SPHERE_SIZE + 1],
                lines[(i - 1) \div SPHERE_SIZE + 1])[((i - 1) % SPHERE_SIZE) + 1]]

(* objects[i] of the flat array *)
FlatRead(i) == objects[i + 1]

(* intersectSphere of part_001 reads center and radius at objOfs + 1 .. + 4 *)
(* and leaves the hit alone when it returns false                           *)
FlatSphere(r, tmn, closest, ofs) ==
  LET res == intersectSphere(r, tmn, closest,
                             <<FlatRead(ofs + 1), FlatRead(ofs + 2), FlatRead(ofs + 3)>>,
                             FlatRead(ofs + 4))
  IN IF res.hit THEN res.dist ELSE closest

InitScan ==
  /\ pc = "scan"
  /\ \E n \in 1..MaxObjs :
       \E kinds \in [1..n -> ScanKinds], lines \in [1..n -> ScanLines] :
         objects = FlatTable(n, kinds, lines)
  /\ \E r \in Rays, iv \in Intervals :
       /\ ray = r
       /\ tmin = DistOf(r, iv[1])
       /\ tmax = DistOf(r, iv[2])
       /\ dist = DistOf(r, iv[2])
  /\ objOfs = 0
  /\ objId = 0
  /\ pendingBvhNodeIndices = [i \in 0..(PENDING_SIZE - 1) |-> 0]
  /\ pendingPos = 0
  /\ pendingCount = 0
  /\ found = "none"
  /\ shapes = <<>>
  /\ sceneObjects = <<>>
  /\ bvhNodes = <<>>
  /\ splitAxis = Undefined
  /\ splitPos = Undefined
  /\ callStack = <<>>
  /\ DispatchIdle
  /\ FrameIdle
  /\ ShadeIdle

(* One run of the loop body of intersectScene: the switch on the kind at    *)
(* objOfs, then the exit test                                               *)
scanObject ==
  /\ pc = "scan"
  /\ \E kind \in {FlatRead(objOfs)} :
     \E ofs \in {IF kind = OBJ_TYPE_SPHERE THEN objOfs + SPHERE_SIZE
                 ELSE IF kind = OBJ_TYPE_PLANE THEN objOfs + 0
                 ELSE objOfs + ERROR_JUMP} :
       /\ dist' = IF kind = OBJ_TYPE_SPHERE THEN FlatSphere(ray, tmin, dist, objOfs) ELSE dist
       /\ objOfs' = ofs
       /\ pc' = IF ofs >= Len(objects) THEN "scanned" ELSE "scan"
  /\ UNCHANGED <<ray, tmin, tmax, objId, pendingBvhNodeIndices, pendingPos, pendingCount,
                 found, buildVars, dispatchVars, frameVars, shadeVars>>

NextScan == scanObject

(* The loop runs on while its exit test fails *)
SpecScan == InitScan /\ [][NextScan]_vars /\ WF_vars(scanObject)

----------------------------------------------------------------------------
(* The bounce loop of the shader's render (part_004 378-408).  What         *)
(* intersectScene and evalMaterial answer depends on the scene and on the   *)
(* random draws: both answers are inputs of an iteration.  iterations       *)
(* counts the executions of the loop body.                                  *)

(* att as evalMaterial may leave it, and sampleBackground at the two ends   *)
(* of its gradient (part_004 372-376)                                       *)
Attenuations == {<<RatInt(1), RatInt(1), RatInt(1)>>, <<Rat(1, 2), Rat(1, 2), Rat(1, 2)>>}
Backgrounds == {<<RatInt(1), RatInt(1), RatInt(1)>>, <<Rat(1, 2), Rat(7, 10), RatInt(1)>>}

(* col *= a, per component *)
ColMul(c, a) == <<RatMul(c[1], a[1]), RatMul(c[2], a[2]), RatMul(c[3], a[3])>>

InitBounce ==
  /\ pc = "bounce"
  /\ maxRecursion \in 0..MaxRecursion
  /\ depth = 0
  /\ col = <<RatInt(1), RatInt(1), RatInt(1)>>
  /\ iterations = 0
  /\ materials = <<>>
  /\ hit = "none"
  /\ att = "none"
  /\ outDir = "none"
  /\ scatter = "none"
  /\ BuildIdle
  /\ TravIdle
  /\ DispatchIdle
  /\ FrameIdle

(* loop { if(intersectScene(..)) { if(evalMaterial(..)) { col *= att; r =   *)
(* createRay(..) } else { break } } else { col *= background; break }       *)
(* depth += 1; if(depth >= globals.maxRecursion) { break } }                *)
renderBounce ==
  /\ pc = "bounce"
  /\ iterations' = iterations + 1
  /\ \E sceneHit \in BOOLEAN, scattered \in BOOLEAN, a \in Attenuations, b \in Backgrounds :
       /\ IF sceneHit /\ scattered
          THEN /\ col' = ColMul(col, a)
               /\ depth' = depth + 1
               /\ pc' = IF depth + 1 >= maxRecursion THEN "rendered" ELSE "bounce"
          ELSE /\ col' = IF sceneHit THEN col ELSE ColMul(col, b)
               /\ depth' = depth
               /\ pc' = IF sceneHit THEN "absorbed" ELSE "rendered"
  /\ UNCHANGED <<maxRecursion, materials, hit, att, outDir, scatter,
                 buildVars, travVars, dispatchVars, frameVars>>

NextBounce == renderBounce

SpecBounce == InitBounce /\ [][NextBounce]_vars

----------------------------------------------------------------------------
(* Hit completion and materials (part_004 159-261).  One sphere, rays along *)
(* an axis through its center: the root of the discriminant is |radius|,    *)
(* the hit position and the normal are integer vectors.  A material line    *)
(* holds albedo and fuzzRadius or refractionIndex in tenths.  The draws of  *)
(* rand3UnitSphere are the six unit vectors along the axes, the draws of    *)
(* rand() are 0 and 1/2.                                                    *)

MatUnit == 10

vec3Scale(v, s) == <<v[1] * s, v[2] * s, v[3] * s>>

Sqrt(d) == CHOOSE x \in 0..d : x * x = d

(* (p + s * sqrt(d)) / a for a unit direction, a = 1 *)
DistValue(t) == t.p + t.s * Sqrt(t.d)

HitOf(pos, nrm, inside, obj) ==
  [pos |-> pos, nrm |-> IF inside THEN vec3Negate(nrm) ELSE nrm, inside |-> inside,
   matType |-> obj.matType, matIndex |-> obj.matOfs]

(* A completion that keeps the normal as computed *)
completeHitSphereNoFlip(r, t, center, radius, obj) ==
  LET pos == vec3Add(r.ori, vec3Scale(r.dir, t))
      nrm == [i \in 1..3 |-> (pos[i] - center[i]) \div radius]
  IN [pos |-> pos, nrm |-> nrm, inside |-> Dot(r.dir, nrm) > 0,
      matType |-> obj.matType, matIndex |-> obj.matOfs]

(* completeHitSphere, then hit.matType and hit.matIndex of intersectScene *)
completeHitSphere(r, t, center, radius, obj) ==
  LET pos == vec3Add(r.ori, vec3Scale(r.dir, t))
      nrm == [i \in 1..3 |-> (pos[i] - center[i]) \div radius]
  IN HitOf(pos, nrm, Dot(r.dir, nrm) > 0, obj)

MaterialAt(matIndex) == materials[matIndex + 1]
Albedo(data) == <<data[1], data[2], data[3]>>

reflect(I, N) == vec3Add(I, vec3Scale(N, -2 * Dot(N, I)))

(* The direction of v: v over the greatest common divisor of its           *)
(* components.  The zero vector has no direction (NaN) and stays zero.      *)
normalizeOver(v, g) == IF g = 0 THEN v ELSE <<v[1] \div g, v[2] \div g, v[3] \div g>>
normalize(v) == normalizeOver(v, GCD(GCD(Abs(v[1]), Abs(v[2])), Abs(v[3])))

(* all(abs(dir) < vec3f(EPSILON)) for an integer vector *)
NearZero(v) == \A i \in 1..3 : Abs(v[i]) <= EPSILON

White == <<MatUnit, MatUnit, MatUnit>>

(* A Lambert that reflects everything *)
evalMaterialLambertWhite(in, h, albedo, u) ==
  [scatter |-> TRUE, att |-> White,
   outDir |-> IF NearZero(vec3Add(h.nrm, u)) THEN h.nrm ELSE normalize(vec3Add(h.nrm, u))]

evalMaterialLambert(in, h, albedo, u) ==
  [scatter |-> TRUE, att |-> albedo,
   outDir |-> IF NearZero(vec3Add(h.nrm, u)) THEN h.nrm ELSE normalize(vec3Add(h.nrm, u))]

MetalOut(h, albedo, out) ==
  [scatter |-> Dot(out, h.nrm) > 0, att |-> albedo, outDir |-> out]

evalMaterialMetal(in, h, albedo, fuzzRadius, u) ==
  MetalOut(h, albedo,
           normalize(vec3Add(vec3Scale(reflect(in.dir, h.nrm), MatUnit), vec3Scale(u, fuzzRadius))))

(* r0 + (1 - r0) * (1 - cosTheta)^5 at cosTheta = 1, the incidence of every *)
(* hit here.                                                                *)
SchlickR0(ratio) == RatDiv(RatSub(RatInt(1), ratio), RatAdd(RatInt(1), ratio))
schlickReflectance(cosTheta, ratio) == RatMul(SchlickR0(ratio), SchlickR0(ratio))

(* refract(I, N, eta) for dot(N, I) = -1: k = 1 and the result is           *)
(* eta * I - (eta * dot(N, I) + 1) * N = eta * (I + N) - N, with I + N = 0. *)
refract(I, N, eta) ==
  [i \in 1..3 |-> RatSub(RatMul(eta, RatInt(I[i] + N[i])), RatInt(N[i])).n]

GlassOut(in, h, albedo, dir, reflects) ==
  [scatter |-> TRUE, att |-> albedo,
   outDir |-> IF dir = <<0, 0, 0>> \/ reflects THEN reflect(in.dir, h.nrm) ELSE dir]

evalMaterialGlass(in, h, albedo, refractionIndex, x) ==
  LET ratio == IF h.inside THEN Rat(refractionIndex, MatUnit) ELSE Rat(MatUnit, refractionIndex)
  IN GlassOut(in, h, albedo, refract(in.dir, h.nrm, ratio),
              RatLess(x, schlickReflectance(Min2(Dot(vec3Negate(in.dir), h.nrm), 1), ratio)))

(* var att and var newDir of render are zero-initialised; the default      *)
(* branch writes neither.                                                   *)
evalMaterial(in, h, u, x) ==
  IF h.matType = MAT_TYPE_LAMBERT
  THEN evalMaterialLambert(in, h, Albedo(MaterialAt(h.matIndex)), u)
  ELSE IF h.matType = MAT_TYPE_METAL
  THEN evalMaterialMetal(in, h, Albedo(MaterialAt(h.matIndex)), MaterialAt(h.matIndex)[4], u)
  ELSE IF h.matType = MAT_TYPE_GLASS
  THEN evalMaterialGlass(in, h, Albedo(MaterialAt(h.matIndex)), MaterialAt(h.matIndex)[4], x)
  ELSE [scatter |-> FALSE, att |-> <<0, 0, 0>>, outDir |-> <<0, 0, 0>>]

AxisDirs ==
  { <<1, 0, 0>>, <<-1, 0, 0>>, <<0, 1, 0>>, <<0, -1, 0>>, <<0, 0, 1>>, <<0, 0, -1>> }

RandDraws == { Rat(0, 1), Rat(1, 2) }

ShadeCenters == { <<0, 0, 0>>, <<-3, -3, -3>> }
ShadeRadii == { 1, 2, -1 }
ShadeIntervals == { <<EPSILON, MAX_DIST>>, <<EPSILON, 2>> }

(* addLambert, addMetal, addGlass: kind and material line *)
ShadeMaterials ==
  { <<MAT_TYPE_LAMBERT, <<5, 5, 5, 0>>>>, <<MAT_TYPE_LAMBERT, <<10, 3, 0, 0>>>>,
    <<MAT_TYPE_LAMBERT, <<12, 8, 4, 0>>>>,
    <<MAT_TYPE_METAL, <<8, 6, 2, 0>>>>, <<MAT_TYPE_METAL, <<8, 6, 2, 10>>>>,
    <<MAT_TYPE_METAL, <<11, 10, 9, 5>>>>,
    <<MAT_TYPE_GLASS, <<10, 10, 10, 15>>>> }

(* The rays through center along the axes, from up to MaxD away *)
ShadeRays(center) ==
  { createRay(vec3Add(center, vec3Scale(dir, -k)), dir) : dir \in AxisDirs, k \in (-MaxD)..MaxD }

InitShade ==
  /\ pc = "shade"
  /\ \E center \in ShadeCenters, radius \in ShadeRadii, mat \in ShadeMaterials :
       /\ objects = <<addObject(SHAPE_TYPE_SPHERE, 0, mat[1], 0)>>
       /\ shapes = <<<<center[1], center[2], center[3], radius>>>>
       /\ materials = <<mat[2]>>
  /\ sceneObjects = objects
  /\ bvhNodes = <<>>
  /\ splitAxis = Undefined
  /\ splitPos = Undefined
  /\ callStack = <<>>
  /\ hit = "none"
  /\ att = "none"
  /\ outDir = "none"
  /\ scatter = "none"
  /\ maxRecursion = 0
  /\ depth = 0
  /\ col = "none"
  /\ iterations = 0
  /\ TravIdle
  /\ DispatchIdle
  /\ FrameIdle

(* intersectSphere on the sphere of the scene, as intersectObjects calls it *)
hitSphere ==
  /\ pc = "shade"
  /\ \E r \in ShadeRays(ShapeCenter(0)), iv \in ShadeIntervals :
       \E res \in {intersectSphere(r, DistOf(r, iv[1]), DistOf(r, iv[2]),
                                   ShapeCenter(0), ShapeRadius(0))} :
         /\ ray' = r
         /\ tmin' = DistOf(r, iv[1])
         /\ tmax' = DistOf(r, iv[2])
         /\ dist' = res.dist
         /\ found' = res.hit
         /\ pc' = IF res.hit THEN "hit" ELSE "missed"
  /\ UNCHANGED <<objId, pendingBvhNodeIndices, pendingPos, pendingCount, objOfs,
                 buildVars, dispatchVars, frameVars, shadeVars>>

(* The end of intersectScene for a hit sphere *)
completeHit ==
  /\ pc = "hit"
  /\ hit' = completeHitSphere(ray, DistValue(dist), ShapeCenter(0), ShapeRadius(0),
                              ObjAt(objects, 0))
  /\ pc' = "complete"
  /\ UNCHANGED <<materials, att, outDir, scatter, maxRecursion, depth, col, iterations,
                 buildVars, travVars, dispatchVars, frameVars>>

(* evalMaterial on the completed hit *)
shadeHit ==
  /\ pc = "complete"
  /\ \E u \in AxisDirs, x \in RandDraws :
       \E m \in {evalMaterial(ray, hit, u, x)} :
         /\ att' = m.att
         /\ outDir' = m.outDir
         /\ scatter' = m.scatter
  /\ pc' = "shaded"
  /\ UNCHANGED <<materials, hit, maxRecursion, depth, col, iterations,
                 buildVars, travVars, dispatchVars, frameVars>>

NextShade == hitSphere \/ completeHit \/ shadeHit

SpecShade == InitShade /\ [][NextShade]_vars

----------------------------------------------------------------------------
(* The compute dispatch of render: ceil(width / 8) x ceil(height / 8)       *)
(* workgroups of 8 x 8 invocations (main.js line 592).  What an invocation  *)
(* touches does not depend on the order, so the invocations run in row      *)
(* order.                                                                   *)

CeilDiv(a, b) == (a + b - 1) \div b
GridWidth == WORKGROUP_SIZE * CeilDiv(width, WORKGROUP_SIZE)
GridHeight == WORKGROUP_SIZE * CeilDiv(height, WORKGROUP_SIZE)

(* if(all(globalId.xy >= vec2u(globals.width, globals.height))) return; *)
EarlyExit(x, y) == x >= width /\ y >= height

(* let index = globals.width * globalId.y + globalId.x; *)
PixelIndex(x, y) == width * y + x

InitDispatch ==
  /\ pc = "dispatch"
  /\ width \in 1..MaxImage
  /\ height \in 1..MaxImage
  /\ invocation = 0
  /\ touched = {}
  /\ writers = [slot \in 0..(width * height - 1) |-> {}]
  /\ outOfBounds \in {"drop", "clamp"}
  /\ BuildIdle
  /\ TravIdle
  /\ FrameIdle
  /\ ShadeIdle

(* One invocation of computeMain.  buffer and image hold width * height     *)
(* slots; a store past the end is dropped or lands on the last slot, as the *)
(* device has it.                                                           *)
computeMain ==
  /\ pc = "dispatch"
  /\ invocation < GridWidth * GridHeight
  /\ LET x == invocation % GridWidth
         y == invocation \div GridWidth
         index == PixelIndex(x, y)
     IN IF EarlyExit(x, y)
        THEN UNCHANGED <<touched, writers>>
        ELSE /\ touched' = touched \cup {<<x, y>>}
             /\ writers' =
                  IF index < width * height
                  THEN [writers EXCEPT ![index] = @ \cup {<<x, y>>}]
                  ELSE IF outOfBounds = "clamp"
                  THEN [writers EXCEPT ![width * height - 1] = @ \cup {<<x, y>>}]
                  ELSE writers
  /\ invocation' = invocation + 1
  /\ UNCHANGED <<pc, width, height, outOfBounds, buildVars, travVars, frameVars, shadeVars>>

NextDispatch == computeMain

SpecDispatch == InitDispatch /\ [][NextDispatch]_vars

----------------------------------------------------------------------------
(* The frame loop and the input handlers (main.js).  The view keeps eye as  *)
(* steps of MOVE_VELOCITY along right and fwd from where setView put it,    *)
(* theta and phi as steps of LOOK_VELOCITY from what setView computed, and  *)
(* focDist and focAngle in tenths; the clamps of theta are out of reach of  *)
(* MaxAdjust.  One pixel stands for the accumulation buffer: every pixel is *)
(* mixed with the same weight.                                              *)

(* resetView for ACTIVE_SCENE "RIOW" *)
resetView ==
  [lookFrom |-> "reset", eye |-> <<0, 0>>, look |-> <<0, 0>>,
   vertFov |-> 20, focDist |-> 100, focAngle |-> 6]

(* update: setView to the point of the orbit *)
OrbitView(v) == [v EXCEPT !.lookFrom = "orbit", !.eye = <<0, 0>>, !.look = <<0, 0>>]

(* How far a view is from the one resetView sets, in steps *)
Deviation(v) ==
  Abs(v.eye[1]) + Abs(v.eye[2]) + Abs(v.look[1]) + Abs(v.look[2])
    + Abs(v.focDist - resetView.focDist) + Abs(v.focAngle - resetView.focAngle)

Keys == {"a", "d", "w", "s", ",", ".", "-", "+", "r", "o", "l", "x"}
Movements == {-1, 0, 1}

(* The switch of handleKeyEvent on the view *)
KeyView(key, v) ==
  CASE key = "a" -> [v EXCEPT !.eye[1] = @ - 1]
    [] key = "d" -> [v EXCEPT !.eye[1] = @ + 1]
    [] key = "w" -> [v EXCEPT !.eye[2] = @ - 1]
    [] key = "s" -> [v EXCEPT !.eye[2] = @ + 1]
    [] key = "," -> [v EXCEPT !.focDist = Max2(@ - 1, 1)]
    [] key = "." -> [v EXCEPT !.focDist = @ + 1]
    [] key = "-" -> [v EXCEPT !.focAngle = Max2(@ - 1, 0)]
    [] key = "+" -> [v EXCEPT !.focAngle = @ + 1]
    [] key = "r" -> resetView
    [] OTHER -> v

FrameCount == Len(buffer) - 1

(* A reset that leaves TEMPORAL_WEIGHT out: gatheredSamples = 0 *)
resetAccumulationBufferToZero == RatInt(0)

(* gatheredSamples = TEMPORAL_WEIGHT * SAMPLES_PER_PIXEL *)
resetAccumulationBuffer == RatMul(TEMPORAL_WEIGHT, RatInt(SAMPLES_PER_PIXEL))

(* updateView: the camera basis is derived from the view and uploaded, then *)
(* resetAccumulationBuffer()                                                *)
updateView ==
  /\ gatheredSamples' = resetAccumulationBuffer
  /\ framesAtReset' = FrameCount

(* An upload that leaves gatheredSamples out of the weight *)
copyFrameDataFullWeight(gathered) ==
  RatDiv(RatInt(SAMPLES_PER_PIXEL), RatInt(SAMPLES_PER_PIXEL))

(* The weight that copyFrameData uploads *)
copyFrameData(gathered) ==
  RatDiv(RatInt(SAMPLES_PER_PIXEL), RatAdd(gathered, RatInt(SAMPLES_PER_PIXEL)))

(* A frame that forgets to count its samples *)
AddNoSamples(gathered) == gathered

(* gatheredSamples += SAMPLES_PER_PIXEL *)
AddSamples(gathered) == RatAdd(gathered, RatInt(SAMPLES_PER_PIXEL))

(* mix with its first two arguments exchanged: what the buffer held is      *)
(* scaled by weight and the estimate of the frame enters with 1 - weight    *)
mixExchanged(buf, a) ==
  [i \in 1..(Len(buf) + 1) |->
     IF i <= Len(buf) THEN RatMul(buf[i], a) ELSE RatSub(RatInt(1), a)]

(* computeMain: outCol = mix(buffer[index].xyz, col / samplesPerPixel,      *)
(* globals.weight), on the shares: what the buffer held is scaled by        *)
(* 1 - weight and the estimate of the frame enters with weight.             *)
mix(buf, a) ==
  [i \in 1..(Len(buf) + 1) |->
     IF i <= Len(buf) THEN RatMul(buf[i], RatSub(RatInt(1), a)) ELSE a]

(* After main: resetView(); updateView(); startRender() *)
InitFrame ==
  /\ pc = "frames"
  /\ gatheredSamples = resetAccumulationBuffer
  /\ orbitCam = FALSE
  /\ view = resetView
  /\ weight = RatInt(0)
  /\ buffer = <<RatInt(1)>>
  /\ framesAtReset = 0
  /\ BuildIdle
  /\ TravIdle
  /\ DispatchIdle
  /\ ShadeIdle

(* A frame that counts its samples before it uploads the weight *)
renderCountsFirst ==
  /\ pc = "frames"
  /\ FrameCount < MaxFrames
  /\ \E gathered \in {AddSamples(IF orbitCam THEN resetAccumulationBuffer ELSE gatheredSamples)} :
     \E w \in {copyFrameData(gathered)} :
       /\ weight' = w
       /\ buffer' = mix(buffer, w)
       /\ gatheredSamples' = gathered
  /\ view' = IF orbitCam THEN OrbitView(view) ELSE view
  /\ framesAtReset' = IF orbitCam THEN FrameCount ELSE framesAtReset
  /\ UNCHANGED <<pc, orbitCam, buildVars, travVars, dispatchVars, shadeVars>>

(* One frame: update, copyFrameData, the compute pass, gatheredSamples +=   *)
render ==
  /\ pc = "frames"
  /\ FrameCount < MaxFrames
  /\ \E gathered \in {IF orbitCam THEN resetAccumulationBuffer ELSE gatheredSamples} :
     \E w \in {copyFrameData(gathered)} :
       /\ weight' = w
       /\ buffer' = mix(buffer, w)
       /\ gatheredSamples' = AddSamples(gathered)
  /\ view' = IF orbitCam THEN OrbitView(view) ELSE view
  /\ framesAtReset' = IF orbitCam THEN FrameCount ELSE framesAtReset
  /\ UNCHANGED <<pc, orbitCam, buildVars, travVars, dispatchVars, shadeVars>>

handleKeyEvent ==
  /\ pc = "frames"
  /\ \E key \in Keys :
       /\ Deviation(KeyView(key, view)) <= MaxAdjust
       /\ view' = KeyView(key, view)
       /\ orbitCam' = IF key = "o" THEN ~orbitCam ELSE orbitCam
  /\ updateView
  /\ UNCHANGED <<pc, weight, buffer, buildVars, travVars, dispatchVars, shadeVars>>

handleCameraMouseMoveEvent ==
  /\ pc = "frames"
  /\ \E movementX \in Movements, movementY \in Movements :
       \E v \in {[view EXCEPT !.look = <<@[1] - movementY, @[2] - movementX>>]} :
         /\ Deviation(v) <= MaxAdjust
         /\ view' = v
  /\ updateView
  /\ UNCHANGED <<pc, orbitCam, weight, buffer, buildVars, travVars, dispatchVars, shadeVars>>

NextFrame == render \/ handleKeyEvent \/ handleCameraMouseMoveEvent

SpecFrame == InitFrame /\ [][NextFrame]_vars

(* The frames rendered since resetAccumulationBuffer last ran *)
FramesSinceReset == FrameCount - framesAtReset

RECURSIVE RatSum(_, _)
RatSum(seq, i) == IF i = 0 THEN RatInt(0) ELSE RatAdd(RatSum(seq, i - 1), seq[i])

(* The share in the buffer of what it held when the last reset ran *)
StaleShare == RatSum(buffer, framesAtReset + 1)

----------------------------------------------------------------------------
(* Reading the built tree *)

Built == pc \in {"built", "trav", "done"}

NodeIndices == 0..(NumNodes - 1)
IsLeaf(nodeIndex) == NodeAt(bvhNodes, nodeIndex).objCount > 0

(* The object indices [startIndex, startIndex + objCount) of a leaf *)
LeafRange(nodeIndex) ==
  LET n == NodeAt(bvhNodes, nodeIndex)
  IN n.startIndex .. (n.startIndex + n.objCount - 1)

(* An internal node whose two children are nodes created after it *)
HasChildren(nodeIndex) ==
  LET n == NodeAt(bvhNodes, nodeIndex)
  IN n.objCount = 0 /\ n.startIndex > nodeIndex /\ n.startIndex + 1 < NumNodes

(* The object indices held by the leaves below a node *)
RECURSIVE SubtreeObjs(_)
SubtreeObjs(nodeIndex) ==
  IF IsLeaf(nodeIndex) THEN LeafRange(nodeIndex)
  ELSE IF HasChildren(nodeIndex)
       THEN SubtreeObjs(NodeAt(bvhNodes, nodeIndex).startIndex)
              \cup SubtreeObjs(NodeAt(bvhNodes, nodeIndex).startIndex + 1)
       ELSE {}

Count(seq, x) == Cardinality({k \in 1..Len(seq) : seq[k] = x})
IsPermutation(a, b) ==
  /\ Len(a) = Len(b)
  /\ \A k \in 1..Len(a) : Count(a, a[k]) = Count(b, a[k])

(* A sphere's bounding volume: center -/+ |radius| on every axis *)
ObjInsideBox(objIndex, boxMin, boxMax) ==
  LET obj == ObjAt(objects, objIndex)
      c == ShapeCenter(obj.shapeOfs)
      r == Abs(ShapeRadius(obj.shapeOfs))
  IN \A a \in 1..3 : boxMin[a] <= c[a] - r /\ c[a] + r <= boxMax[a]

BoxInsideBox(inMin, inMax, outMin, outMax) ==
  \A a \in 1..3 : outMin[a] <= inMin[a] /\ inMax[a] <= outMax[a]

(* The number of edges from a node down to its deepest leaf *)
RECURSIVE NodeDepth(_)
NodeDepth(nodeIndex) ==
  IF HasChildren(nodeIndex)
  THEN 1 + Max2(NodeDepth(NodeAt(bvhNodes, nodeIndex).startIndex),
                NodeDepth(NodeAt(bvhNodes, nodeIndex).startIndex + 1))
  ELSE 0

TreeDepth == NodeDepth(0)

----------------------------------------------------------------------------
(* C1: after createBvh the object ranges of the leaves are pairwise         *)
(* disjoint and together are exactly 0..N-1, and the reordered object table *)
(* is a permutation of the table createScene built.                         *)
C1_LeavesPartitionObjects ==
  Built =>
    /\ \A i, j \in NodeIndices :
         (i # j /\ IsLeaf(i) /\ IsLeaf(j)) => LeafRange(i) \cap LeafRange(j) = {}
    /\ UNION {LeafRange(i) : i \in {k \in NodeIndices : IsLeaf(k)}} = 0..(NumObjects - 1)
    /\ IsPermutation(objects, sceneObjects)

(* C1 witness: a built tree with several leaves whose build reordered the table *)
C1_Witness ==
  /\ pc = "built"
  /\ Cardinality({k \in NodeIndices : IsLeaf(k)}) >= 2
  /\ objects # sceneObjects

(* C2, as claimed: every node's box encloses the bounding volume of every   *)
(* object below it, and every internal node's box encloses the boxes of its *)
(* two children.                                                            *)
C2_BoxesEnclose ==
  Built =>
    \A i \in NodeIndices :
      LET n == NodeAt(bvhNodes, i)
      IN /\ \A o \in SubtreeObjs(i) : ObjInsideBox(o, n.aabbMin, n.aabbMax)
         /\ HasChildren(i) =>
              \A c \in {n.startIndex, n.startIndex + 1} :
                BoxInsideBox(NodeAt(bvhNodes, c).aabbMin, NodeAt(bvhNodes, c).aabbMax,
                             n.aabbMin, n.aabbMax)

(* C3, as claimed: a node with objCount > 0 is a leaf over objCount objects *)
(* of the table starting at startIndex; a node with objCount = 0 is         *)
(* internal, startIndex is its left child and startIndex + 1 its right      *)
(* child, both existing nodes that split the objects below it; the root is  *)
(* node 0.                                                                  *)
C3_NodeFields ==
  Built =>
    /\ NumNodes >= 1
    /\ \A i \in NodeIndices :
         LET n == NodeAt(bvhNodes, i)
         IN /\ n.objCount > 0 =>
                 (0 <= n.startIndex /\ n.startIndex + n.objCount <= NumObjects)
            /\ n.objCount = 0 =>
                 /\ HasChildren(i)
                 /\ SubtreeObjs(n.startIndex) # {}
                 /\ SubtreeObjs(n.startIndex + 1) # {}
                 /\ SubtreeObjs(n.startIndex) \cap SubtreeObjs(n.startIndex + 1) = {}

(* C4, as claimed: the BVH traversal of intersectScene returns the same     *)
(* hit-or-miss outcome and the same hit distance as the scan of the whole   *)
(* object table with intersectObjects.                                      *)
C4_TraversalEqualsLinearScan ==
  pc = "done" =>
    LET lin == LinearScan(ray, tmin, tmax)
    IN /\ found = lin.found
       /\ found => DistCmp(dist, lin.dist) = 0

(* C5, as claimed: an invocation with x >= width or y >= height touches no  *)
(* buffer, every other invocation writes only slot width * y + x, and so no *)
(* slot of buffer / image is written by two invocations of one dispatch.    *)
C5_OneInvocationPerSlot ==
  /\ \A inv \in touched : inv[1] < width /\ inv[2] < height
  /\ \A slot \in DOMAIN writers :
       /\ \A inv \in writers[slot] : slot = width * inv[2] + inv[1]
       /\ Cardinality(writers[slot]) <= 1

(* C6, as claimed: intersectScene never writes or reads                     *)
(* pendingBvhNodeIndices at an index >= 30.  Entries are written at index   *)
(* pendingCount, which is then incremented, and read at index pendingPos.   *)
C6_PendingWithinCapacity ==
  /\ pendingCount <= PENDING_SIZE
  /\ pc = "trav" => pendingPos < PENDING_SIZE

(* C7: every call of updateView sets gatheredSamples to exactly             *)
(* TEMPORAL_WEIGHT x SAMPLES_PER_PIXEL, whatever it was before, and before  *)
(* the weight of the next frame is computed: a key or mouse event leaves    *)
(* gatheredSamples at that value, and a frame whose orbit update calls it   *)
(* uploads the weight computed from that value.                             *)
C7_UpdateViewResets ==
  [][ /\ (handleKeyEvent \/ handleCameraMouseMoveEvent)
           => gatheredSamples' = RatMul(TEMPORAL_WEIGHT, RatInt(SAMPLES_PER_PIXEL))
      /\ (render /\ orbitCam)
           => /\ weight' = RatDiv(RatInt(SAMPLES_PER_PIXEL), RatAdd(RatMul(TEMPORAL_WEIGHT, RatInt(SAMPLES_PER_PIXEL)), RatInt(SAMPLES_PER_PIXEL)))
              /\ gatheredSamples' = RatAdd(RatMul(TEMPORAL_WEIGHT, RatInt(SAMPLES_PER_PIXEL)), RatInt(SAMPLES_PER_PIXEL)) ]_vars

(* C7 witness: updateView has just run after frames were rendered *)
C7_Witness ==
  /\ pc = "frames"
  /\ FrameCount >= 2
  /\ framesAtReset = FrameCount
  /\ gatheredSamples = Rat(1, 2)

(* C8, as claimed: the weight uploaded for the first frame rendered after a *)
(* camera-basis change equals 1.                                            *)
C8_FirstWeightIsOne ==
  (pc = "frames" /\ FramesSinceReset = 1) => weight = RatInt(1)

(* C8, amended: the weight uploaded for the first frame rendered after a    *)
(* camera-basis change equals 1 / (1 + TEMPORAL_WEIGHT), which is below 1:  *)
(* the frame's estimate does not fully overwrite the accumulation buffer.   *)
C8_FirstWeightBelowOne ==
  (pc = "frames" /\ FramesSinceReset = 1) =>
    /\ weight = RatDiv(RatInt(1), RatAdd(RatInt(1), TEMPORAL_WEIGHT))
    /\ RatLess(weight, RatInt(1))
    /\ buffer[Len(buffer)] = weight
    /\ StaleShare = RatSub(RatInt(1), weight)

(* C8 witness: the first frame after a change that followed earlier frames *)
C8_Witness ==
  /\ pc = "frames"
  /\ FramesSinceReset = 1
  /\ framesAtReset >= 1

(* C9: in every rendered frame the uploaded weight                          *)
(* SAMPLES_PER_PIXEL / (gatheredSamples + SAMPLES_PER_PIXEL) lies in (0, 1] *)
(* (after the frame, weight x gatheredSamples = SAMPLES_PER_PIXEL, so it    *)
(* goes to 0 as gatheredSamples grows), and over consecutive frames with no *)
(* camera change in between it strictly decreases.                          *)
C9_WeightRangeAndDecrease ==
  /\ [](FramesSinceReset >= 1 =>
          /\ RatLess(RatInt(0), weight)
          /\ ~RatLess(RatInt(1), weight)
          /\ RatMul(weight, gatheredSamples) = RatInt(SAMPLES_PER_PIXEL))
  /\ [][(render /\ ~orbitCam /\ FramesSinceReset >= 1) => RatLess(weight', weight)]_vars

(* C9 witness: a third consecutive frame with no camera change in between *)
C9_Witness ==
  /\ pc = "frames"
  /\ FramesSinceReset >= 3
  /\ gatheredSamples = Rat(31, 2)

(* C10, as claimed: k >= 1 frames after the last reset the buffer is a      *)
(* weighted average of exactly the k frame estimates since the reset: what  *)
(* the buffer held before the reset has share zero.                         *)
C10_StaleShareZero ==
  (pc = "frames" /\ FramesSinceReset >= 1) => StaleShare = RatInt(0)

(* C10, amended: k >= 1 frames after the last reset each of the k frame     *)
(* estimates since the reset has share 1 / (TEMPORAL_WEIGHT + k) and what   *)
(* the buffer held before the reset keeps the share                         *)
(* TEMPORAL_WEIGHT / (TEMPORAL_WEIGHT + k), which is not zero.              *)
C10_StaleShareRemains ==
  (pc = "frames" /\ FramesSinceReset >= 1) =>
    /\ StaleShare = RatDiv(TEMPORAL_WEIGHT, RatAdd(TEMPORAL_WEIGHT, RatInt(FramesSinceReset)))
    /\ RatLess(RatInt(0), StaleShare)
    /\ \A i \in (framesAtReset + 2)..Len(buffer) :
         buffer[i] = RatDiv(RatInt(1), RatAdd(TEMPORAL_WEIGHT, RatInt(FramesSinceReset)))

(* C10 witness: two frames since a reset that followed earlier frames *)
C10_Witness ==
  /\ pc = "frames"
  /\ FramesSinceReset >= 2
  /\ framesAtReset >= 1

C12_AtMostMaxRecursion ==
  iterations <= maxRecursion

(* The distance from the origin of ray to the center of the sphere, along   *)
(* the direction of ray                                                     *)
CenterDistance == Dot(vec3Add(ShapeCenter(0), vec3Negate(ray.ori)), ray.dir)

SphereTested == pc \in {"missed", "hit", "complete", "shaded"}

(* tmin < t < tmax *)
InsideInterval(t) == DistLess(tmin, DistOf(ray, t)) /\ DistLess(DistOf(ray, t), tmax)

(* intersectSphere reports distance t; completeHitSphere reports the flag   *)
(* and the normal against the ray                                           *)
ReportsHit(t, inside) ==
  /\ pc # "missed"
  /\ DistValue(dist) = t
  /\ pc \in {"complete", "shaded"} =>
       /\ hit.inside = inside
       /\ hit.nrm = vec3Negate(ray.dir)
       /\ hit.pos = vec3Add(ray.ori, vec3Scale(ray.dir, t))

(* C13, as claimed: for a ray aimed at the center of a sphere from distance *)
(* D > radius with tmin < D - radius < tmax, intersectSphere reports        *)
(* D - radius and completeHitSphere reports inside = false and the normal   *)
(* -direction, whatever the sign of the stored radius.                      *)
C13_CenterRayHit ==
  (/\ SphereTested
   /\ CenterDistance > 0
   /\ CenterDistance > ShapeRadius(0)
   /\ InsideInterval(CenterDistance - ShapeRadius(0)))
  => ReportsHit(CenterDistance - ShapeRadius(0), FALSE)

(* C13, amended: the claim holds for a sphere stored with radius > 0; for   *)
(* one stored with radius < 0 the reported distance is D - |radius| and     *)
(* inside is true, the normal is -direction all the same.                   *)
C13_CenterRayHitBySign ==
  /\ (/\ SphereTested
      /\ ShapeRadius(0) > 0
      /\ CenterDistance > ShapeRadius(0)
      /\ InsideInterval(CenterDistance - ShapeRadius(0)))
     => ReportsHit(CenterDistance - ShapeRadius(0), FALSE)
  /\ (/\ SphereTested
      /\ ShapeRadius(0) < 0
      /\ CenterDistance > -ShapeRadius(0)
      /\ InsideInterval(CenterDistance + ShapeRadius(0)))
     => ReportsHit(CenterDistance + ShapeRadius(0), TRUE)

C13_Witness ==
  /\ pc = "complete"
  /\ ShapeRadius(0) = 2
  /\ CenterDistance = 4
  /\ InsideInterval(CenterDistance - ShapeRadius(0))
  /\ DistValue(dist) = 2
  /\ ~hit.inside

(* The albedo the hit's material line holds is at most 1 on every channel *)
AlbedoAtMostOne ==
  \A c \in 1..3 : Albedo(MaterialAt(hit.matIndex))[c] <= MatUnit

(* C14: for a Lambert or Metal material whose albedo is at most 1 on every  *)
(* channel, the attenuation evalMaterial returns is at most the albedo on   *)
(* every channel, whether the scatter is accepted or rejected.              *)
C14_AttenuationWithinAlbedo ==
  (/\ pc = "shaded"
   /\ hit.matType \in {MAT_TYPE_LAMBERT, MAT_TYPE_METAL}
   /\ AlbedoAtMostOne)
  => \A c \in 1..3 : att[c] <= Albedo(MaterialAt(hit.matIndex))[c]

C14_Witness ==
  /\ pc = "shaded"
  /\ hit.matType = MAT_TYPE_LAMBERT
  /\ AlbedoAtMostOne
  /\ att = <<10, 3, 0>>
  /\ scatter = TRUE

(* C15, as claimed: during one intersectScene call the number of slots of   *)
(* pendingBvhNodeIndices in use, pendingCount, is at most the depth of the  *)
(* tree plus one.                                                           *)
C15_PendingWithinDepth ==
  pc \in {"trav", "done"} => pendingCount <= TreeDepth + 1

(* The call of subdivideBvhNode that is next: its node, and what its search *)
(* loops leave in bestCost, splitPos and splitAxis                          *)
CallNode == NodeAt(bvhNodes, Head(callStack))
CallBest ==
  SearchSplit(objects, CallNode.startIndex, CallNode.objCount,
              [bestCost |-> MAX_VALUE, splitPos |-> splitPos, splitAxis |-> splitAxis])

(* The call made its node internal: two nodes were added, the node has no   *)
(* objects and names the first of them                                      *)
BecomesInternal ==
  /\ Len(bvhNodes') = Len(bvhNodes) + 2
  /\ NodeAt(bvhNodes', Head(callStack)).objCount = 0
  /\ NodeAt(bvhNodes', Head(callStack)).startIndex = Len(bvhNodes)

(* objCount x area of the node's box is above bestCost; an empty node has   *)
(* no cost that anything is lower than                                      *)
SplitGains(node, bestCost) ==
  /\ node.objCount > 0
  /\ bestCost < node.objCount * calcAabbArea(node.aabbMin, node.aabbMax)

(* C16: a call of subdivideBvhNode leaves the node table as it is, the node *)
(* a leaf, exactly when the best candidate cost is not lower than           *)
(* objCount x area of the node's box; in every other case the node becomes  *)
(* internal and two children are added.                                     *)
C16_LeafExactlyWhenNoGain ==
  [][CallRuns =>
       IF SplitGains(CallNode, CallBest.bestCost)
       THEN BecomesInternal
       ELSE bvhNodes' = bvhNodes]_vars

C16_Witness ==
  /\ pc = "build"
  /\ Len(bvhNodes) = 3
  /\ Len(callStack) = 2
  /\ NodeAt(bvhNodes, 0).objCount = 0
  /\ NodeAt(bvhNodes, 1).objCount = 1
  /\ NodeAt(bvhNodes, 2).objCount = 2

(* The candidates of the call that is next *)
CallCandidates == SplitCandidates(objects, CallNode.startIndex, CallNode.objCount)

(* The cost calcSurfaceAreaHeuristic gives (axis, pos) on the node of the   *)
(* call that is next                                                        *)
CallCost(axis, pos) ==
  calcSurfaceAreaHeuristic(objects, CallNode.startIndex, CallNode.objCount, axis, pos)

(* C17: when subdivideBvhNode partitions a node, splitAxis and splitPos are *)
(* those of a candidate, the cost of that pair is at most the cost of every *)
(* candidate (the center of every object of the node on every axis), and    *)
(* the pair has objects of the node on both sides.                          *)
C17_ChosenSplitIsCheapest ==
  [][(CallRuns /\ BecomesInternal) =>
       /\ \E k \in DOMAIN CallCandidates :
            /\ CallCandidates[k].splitAxis = splitAxis'
            /\ CallCandidates[k].splitPos = splitPos'
       /\ \A k \in DOMAIN CallCandidates :
            CallCost(splitAxis', splitPos') <= CallCandidates[k].bestCost
       /\ SahLeft(objects, CallNode.startIndex, CallNode.objCount, splitAxis', splitPos') # {}
       /\ SahRight(objects, CallNode.startIndex, CallNode.objCount, splitAxis', splitPos') # {}]_vars

(* A node of three objects was split, one candidate costing more than the   *)
(* chosen one                                                               *)
C17_Witness ==
  /\ pc = "build"
  /\ Len(bvhNodes) = 3
  /\ callStack = <<1, 2>>
  /\ Len(objects) = 3
  /\ splitAxis \in 0..2
  /\ \E axis \in 0..2, i \in 1..3 :
       LET cost == calcSurfaceAreaHeuristic(sceneObjects, 0, 3, axis, ShapeCenter(i - 1)[axis + 1])
       IN /\ cost < MAX_VALUE
          /\ calcSurfaceAreaHeuristic(sceneObjects, 0, 3, splitAxis, splitPos) < cost

(* The center coordinate of the object at index i of objs on the axis *)
CenterOn(objs, i, axis) == ShapeCenter(ObjAt(objs, i).shapeOfs)[axis + 1]

(* The children the call added, and the first index past the node's range *)
LeftChild == NodeAt(bvhNodes', Len(bvhNodes))
RightChild == NodeAt(bvhNodes', Len(bvhNodes) + 1)
CallEnd == CallNode.startIndex + CallNode.objCount

(* C18: when the partition loop of subdivideBvhNode has ended with l, here  *)
(* the start of the right child, every object at [objStartIndex, l) has its *)
(* center on splitAxis below splitPos and every object at                   *)
(* [l, objStartIndex + objCount) has it at or above splitPos; the left      *)
(* child covers [objStartIndex, l), the right child the rest; the objects   *)
(* outside the node's range keep their places.                              *)
C18_PartitionSplitsRange ==
  [][CallRuns =>
       /\ \A i \in 0..(NumObjects - 1) :
            (i < CallNode.startIndex \/ i >= CallEnd) => ObjAt(objects', i) = ObjAt(objects, i)
       /\ BecomesInternal =>
            /\ LeftChild.startIndex = CallNode.startIndex
            /\ LeftChild.objCount = RightChild.startIndex - CallNode.startIndex
            /\ RightChild.objCount = CallEnd - RightChild.startIndex
            /\ LeftChild.objCount > 0
            /\ RightChild.objCount > 0
            /\ \A i \in CallNode.startIndex..(RightChild.startIndex - 1) :
                 CenterOn(objects', i, splitAxis') < splitPos'
            /\ \A i \in RightChild.startIndex..(CallEnd - 1) :
                 CenterOn(objects', i, splitAxis') >= splitPos']_vars

(* The root of three objects was partitioned with a swap, and its left      *)
(* child was partitioned in turn while the right child's object stayed      *)
C18_Witness ==
  /\ pc = "build"
  /\ Len(objects) = 3
  /\ Len(bvhNodes) = 5
  /\ NodeAt(bvhNodes, 1).objCount = 0
  /\ NodeAt(bvhNodes, 2).objCount = 1
  /\ objects # sceneObjects

(* center - radius and center + radius of the object at index i on axis a   *)
LowBound(i, a) ==
  ShapeCenter(ObjAt(objects, i).shapeOfs)[a] - ShapeRadius(ObjAt(objects, i).shapeOfs)
HighBound(i, a) ==
  ShapeCenter(ObjAt(objects, i).shapeOfs)[a] + ShapeRadius(ObjAt(objects, i).shapeOfs)

(* C19, as claimed: every node over a non-empty range of spheres, wherever  *)
(* they are in space, has aabbMin the componentwise minimum of              *)
(* center - radius and aabbMax the componentwise maximum of center + radius *)
(* over its objects.                                                        *)
C19_BoxIsUnionOfBounds ==
  Built =>
    \A nodeIndex \in NodeIndices :
      SubtreeObjs(nodeIndex) # {} =>
        \A a \in 1..3 :
          /\ NodeAt(bvhNodes, nodeIndex).aabbMin[a]
               = SetMin({LowBound(i, a) : i \in SubtreeObjs(nodeIndex)})
          /\ NodeAt(bvhNodes, nodeIndex).aabbMax[a]
               = SetMax({HighBound(i, a) : i \in SubtreeObjs(nodeIndex)})

(* The calls of subdivideBvhNode that the call which ran has made *)
NewCalls == SubSeq(callStack', 1, Len(callStack') - Len(callStack) + 1)

(* C20: createBvh terminates for every table of spheres, coincident centers *)
(* included: the tree gets built, and every call subdivideBvhNode makes of  *)
(* itself is on a node whose range is not empty, lies in the range of the   *)
(* calling node and is strictly smaller.                                    *)
C20_CreateBvhTerminates ==
  /\ <>Built
  /\ [][CallRuns =>
          \A k \in 1..Len(NewCalls) :
            /\ NodeAt(bvhNodes', NewCalls[k]).objCount > 0
            /\ NodeAt(bvhNodes', NewCalls[k]).objCount < CallNode.objCount
            /\ NodeAt(bvhNodes', NewCalls[k]).startIndex >= CallNode.startIndex
            /\ NodeAt(bvhNodes', NewCalls[k]).startIndex
                 + NodeAt(bvhNodes', NewCalls[k]).objCount <= CallEnd]_vars

(* The tree of three spheres of one center and one of two spheres at a      *)
(* distance, built to the end                                               *)
C20_Witness ==
  /\ pc = "built"
  /\ Len(objects) = 3
  /\ Len(bvhNodes) >= 3
  /\ \E i \in 1..3, j \in 1..3 :
       i # j /\ ShapeCenter(i - 1) = ShapeCenter(j - 1)

(* The loop of intersectObjects as C21 has it: an object that is no sphere  *)
(* is passed over and the loop goes on                                      *)
RECURSIVE SkippingScanFrom(_, _, _, _, _)
SkippingScanFrom(r, i, end, tmn, acc) ==
  IF i >= end THEN acc
  ELSE IF ObjAt(objects, i).shapeType = SHAPE_TYPE_SPHERE
  THEN SkippingScanFrom(r, i + 1, end, tmn,
         TakeHit(acc, intersectSphere(r, tmn, acc.dist,
                                      ShapeCenter(ObjAt(objects, i).shapeOfs),
                                      ShapeRadius(ObjAt(objects, i).shapeOfs)), i))
  ELSE SkippingScanFrom(r, i + 1, end, tmn, acc)

(* C21, as claimed: an object of unrecognized shape kind in a leaf is the   *)
(* only object intersectObjects passes over; every sphere of the leaf,      *)
(* before or after it, is tested, so that the traversal ends with the       *)
(* closest distance over all spheres of the table.                          *)
C21_OnlyUnknownSkipped ==
  pc = "done" =>
    DistCmp(dist, SkippingScanFrom(ray, 0, NumObjects, tmin, [dist |-> tmax, objId |-> 0]).dist) = 0

(* C22, as claimed: when evalMaterial reports no scatter, render ends the   *)
(* path at that bounce, and the colour the path returns to the sample sum   *)
(* of the pixel is zero.                                                    *)
C22_NoScatterReturnsZero ==
  pc = "absorbed" => col = <<RatInt(0), RatInt(0), RatInt(0)>>

(* C23: while nothing resets the accumulation, gatheredSamples grows by     *)
(* SAMPLES_PER_PIXEL per rendered frame, after the weight of that frame was *)
(* uploaded: the k-th frame after a reset, k = 0 for the first, is blended  *)
(* with the weight 1 / (TEMPORAL_WEIGHT + k + 1).  FramesSinceReset is      *)
(* k + 1 once that frame was rendered.                                      *)
C23_WeightOfKthFrame ==
  FramesSinceReset >= 1 =>
    /\ weight = RatDiv(RatInt(1), RatAdd(TEMPORAL_WEIGHT, RatInt(FramesSinceReset)))
    /\ gatheredSamples = RatMul(RatAdd(TEMPORAL_WEIGHT, RatInt(FramesSinceReset)),
                                RatInt(SAMPLES_PER_PIXEL))

(* The third frame after a key press, the orbit camera off: weight 10 / 31  *)
C23_Witness ==
  /\ ~orbitCam
  /\ framesAtReset >= 1
  /\ FramesSinceReset = 3
  /\ weight = Rat(10, 31)

(* C24, as claimed: an input event that changes no parameter of the camera, *)
(* such as the press of a key that no case of handleKeyEvent handles,       *)
(* leaves gatheredSamples unchanged.  A step that leaves buffer unchanged   *)
(* is the step of an input handler.                                         *)
C24_IdleEventKeepsSamples ==
  [][(buffer' = buffer /\ view' = view /\ orbitCam' = orbitCam)
       => gatheredSamples' = gatheredSamples]_vars

(* C25, as claimed: the linear scan of the shader without BVH terminates    *)
(* for every object table, tables that hold an object of a reserved kind    *)
(* such as a plane included.                                                *)
C25_ScanTerminates == <>(pc = "scanned")

(* The discriminant and the two roots of sphere i of the table for ray *)
RootB(i) == Dot(vec3Add(ray.ori, vec3Negate(ShapeCenter(ObjAt(objects, i).shapeOfs))), ray.dir)
RootC(i) ==
  LET oc == vec3Add(ray.ori, vec3Negate(ShapeCenter(ObjAt(objects, i).shapeOfs)))
      radius == ShapeRadius(ObjAt(objects, i).shapeOfs)
  IN Dot(oc, oc) - radius * radius
Discriminant(i) == RootB(i) * RootB(i) - Dot(ray.dir, ray.dir) * RootC(i)
SmallerRoot(i) == [p |-> -RootB(i), s |-> -1, d |-> Discriminant(i)]
LargerRoot(i) == [p |-> -RootB(i), s |-> 1, d |-> Discriminant(i)]

SameLeaf(i, j) == \E n \in NodeIndices : IsLeaf(n) /\ i \in LeafRange(n) /\ j \in LeafRange(n)

(* C26: a reported hit is at a root t of its sphere with tmin < t < tmax,   *)
(* both strict; the sphere has a discriminant >= 0; the root is the smaller *)
(* one unless that lies at or before tmin, then the larger one.  An object  *)
(* whose root equals the closest distance found so far does not replace the *)
(* hit found earlier: no object tested before the reported one in the same  *)
(* leaf has a root at the reported distance.                                *)
C26_StrictIntervalAndTies ==
  (pc = "done" /\ found = TRUE) =>
    /\ DistLess(tmin, dist) /\ DistLess(dist, tmax)
    /\ Discriminant(objId) >= 0
    /\ \/ DistCmp(dist, SmallerRoot(objId)) = 0
       \/ /\ DistCmp(dist, LargerRoot(objId)) = 0
          /\ DistLeq(SmallerRoot(objId), tmin)
    /\ \A j \in 0..(objId - 1) :
         (SameLeaf(j, objId) /\ Discriminant(j) >= 0)
           => /\ DistCmp(dist, SmallerRoot(j)) # 0
              /\ DistCmp(dist, LargerRoot(j)) # 0

(* Two equal spheres in one leaf, hit at the same distance: the first one   *)
(* tested stays the reported object                                         *)
C26_Witness ==
  /\ pc = "done"
  /\ found = TRUE
  /\ NumObjects >= 2
  /\ SameLeaf(0, 1)
  /\ objId = 0
  /\ Discriminant(1) >= 0
  /\ DistCmp(dist, SmallerRoot(1)) = 0

(* The sides calcSurfaceAreaHeuristic counted for the candidate the search  *)
(* of the call that is next selects                                         *)
CallLeft ==
  SahLeft(objects, CallNode.startIndex, CallNode.objCount, CallBest.splitAxis, CallBest.splitPos)
CallRight ==
  SahRight(objects, CallNode.startIndex, CallNode.objCount, CallBest.splitAxis, CallBest.splitPos)

ParentsOf(m) ==
  {n \in NodeIndices :
     /\ ~IsLeaf(n)
     /\ m \in {NodeAt(bvhNodes, n).startIndex, NodeAt(bvhNodes, n).startIndex + 1}}

Leaves == {n \in NodeIndices : IsLeaf(n)}

(* C28: after createBvh on a non-empty table of spheres the node array is a *)
(* well-formed binary tree: a node without objects is internal, its left    *)
(* child index is above its own and the index after it exists; every node   *)
(* but the root is the child of exactly one internal node; the number of    *)
(* nodes is twice the number of leaves minus one.                           *)
C28_WellFormedTree ==
  (pc = "built" /\ NumObjects > 0) =>
    /\ \A n \in NodeIndices : ~IsLeaf(n) => HasChildren(n)
    /\ \A m \in NodeIndices : Cardinality(ParentsOf(m)) = IF m = 0 THEN 0 ELSE 1
    /\ \A n \in Leaves : NodeAt(bvhNodes, n).objCount >= 1
    /\ NumNodes = 2 * Cardinality(Leaves) - 1

(* Three spheres, each in a leaf of its own: five nodes *)
C28_Witness ==
  /\ pc = "built"
  /\ NumObjects = 3
  /\ NumNodes = 5
  /\ Cardinality(Leaves) = 3
  /\ ParentsOf(4) # {}

(* C29, as claimed: for every tree createBvh produces and every ray, the    *)
(* loop of intersectScene tests the box of each node at most once and       *)
(* pendingPos never moves backwards.  Every test of an internal node whose  *)
(* box is hit places its two children and adds one to pendingCount, which  *)
(* starts at 1 for the root: when no node index is placed twice, the        *)
(* 2 * pendingCount - 1 indices placed so far are at most the nodes of the  *)
(* tree, and pendingPos is at most pendingCount.                            *)
C29_EachNodeTestedOnce ==
  pc \in {"trav", "done"} =>
    /\ 2 * pendingCount - 1 <= NumNodes
    /\ pendingPos <= pendingCount

(* What the globals splitAxis and splitPos may hold when a call starts:     *)
(* nothing yet, or what any earlier call selected                           *)
StaleAxes == {Undefined, 0, 1, 2}
StalePositions == {Undefined, -4, 0, 3}

(* The search of the call that is next selected a candidate *)
CallSelects == CallBest.bestCost < MAX_VALUE

(* C30: the values of the shared splitAxis and splitPos that the partition  *)
(* loop of a call reads are the ones the search of that same call selected: *)
(* what the call does to the nodes and the objects, and the calls it makes, *)
(* is the same whatever the two variables held when it started, and after   *)
(* it they hold its own selection.  A call whose search selected nothing    *)
(* reads neither: it leaves the variables, the nodes and the objects as     *)
(* they are.                                                                *)
C30_PartitionReadsOwnSelection ==
  [][CallRuns =>
       /\ \A axis0 \in StaleAxes, pos0 \in StalePositions :
            \E r \in {SubdivideCall(bvhNodes, objects, axis0, pos0, Head(callStack))} :
              /\ r.nodes = bvhNodes'
              /\ r.objs = objects'
              /\ r.calls = NewCalls
       /\ CallSelects =>
            /\ splitAxis' = CallBest.splitAxis
            /\ splitPos' = CallBest.splitPos
            /\ \E k \in DOMAIN CallCandidates :
                 /\ CallCandidates[k].splitAxis = splitAxis'
                 /\ CallCandidates[k].splitPos = splitPos'
       /\ ~CallSelects => UNCHANGED <<splitAxis, splitPos, bvhNodes, objects>>]_vars

(* A child of the root has partitioned its objects by a selection of its    *)
(* own, which is not the one the root made                                  *)
C30_Witness ==
  /\ pc \in {"build", "built"}
  /\ Len(objects) = 3
  /\ Len(bvhNodes) = 5
  /\ splitAxis # Undefined
  /\ \E root \in {SearchSplit(sceneObjects, 0, 3,
                              [bestCost |-> MAX_VALUE, splitPos |-> Undefined,
                               splitAxis |-> Undefined])} :
       <<splitAxis, splitPos>> # <<root.splitAxis, root.splitPos>>

====
